---------------------------- MODULE Spec2Model ----------------------------
(***************************************************************************)
(* A model of src/playlist_fixer.py: the playlist rewrite engine           *)
(* (convert_single_playlist), the batch driver (fix_playlists_batch),      *)
(* discovery (find_m3u_files), prefix detection and the interactive        *)
(* workflow of main.                                                       *)
(*                                                                         *)
(* Files hold sequences of bytes, decoded text is a sequence of            *)
(* characters.  A byte or a character is a short string: an ASCII          *)
(* character stands for itself ("#", "/", "\\", "n", "N", "\n", "\r"), a   *)
(* byte above 0x7F is "xHH" and a character above U+007F is "U+HHHH".      *)
(* A path is the sequence of its components.                               *)
(***************************************************************************)
EXTENDS Integers, Sequences, FiniteSets, TLC

LF == "\n"
CR == "\r"
BS == "\\"

----------------------------------------------------------------------------
(* Bounds of the model.                                                    *)

\* Longest playlist content (in bytes) enumerated exhaustively.
MaxLen == 3

\* Number of consecutive runs of the batch over the same input directory.
MaxRuns == 2

----------------------------------------------------------------------------
(* Generic helpers on sequences.                                           *)

Range(s) == {s[i] : i \in 1..Len(s)}

RECURSIVE Concat(_)
Concat(ss) == IF ss = <<>> THEN <<>> ELSE Head(ss) \o Concat(Tail(ss))

RECURSIVE SeqsUpTo(_, _)
SeqsUpTo(S, n) ==
    IF n = 0 THEN {<<>>}
    ELSE LET shorter == SeqsUpTo(S, n - 1)
         IN  shorter \cup {Append(s, x) : s \in shorter, x \in S}

StartsWith(s, c) == Len(s) > 0 /\ s[1] = c

----------------------------------------------------------------------------
(* Codecs: open(..., 'r', encoding='utf-8') and its 'latin-1' fallback,    *)
(* open(..., 'w', encoding='utf-8').                                       *)

\* The multi-byte UTF-8 sequences over the bytes of the model, with the
\* character each one encodes.
Utf8Table ==
    { <<<<"xC3", "xA9">>, "U+00E9">>, <<<<"xC3", "x83">>, "U+00C3">>,
      <<<<"xC2", "xA9">>, "U+00A9">>, <<<<"xC2", "x83">>, "U+0083">>,
      <<<<"xC3", "x82">>, "U+00C2">>, <<<<"xC4", "xB0">>, "U+0130">>,
      <<<<"xE9", "xA9", "xA9">>, "U+9A69">>, <<<<"xE9", "xA9", "x83">>, "U+9A43">>,
      <<<<"xE9", "x83", "xA9">>, "U+90E9">>, <<<<"xE9", "x83", "x83">>, "U+90C3">> }

\* Latin-1 maps every byte to the character of the same number.
Latin1Table ==
    { <<"xE9", "U+00E9">>, <<"xC3", "U+00C3">>, <<"xA9", "U+00A9">>,
      <<"xC2", "U+00C2">>, <<"x83", "U+0083">>, <<"xC4", "U+00C4">>,
      <<"xB0", "U+00B0">> }

HighBytes == {e[1] : e \in Latin1Table} \cup {"x82"}

\* Length of the UTF-8 sequence that starts at b[i]; 0 when there is none.
Utf8Step(b, i) ==
    IF b[i] \notin HighBytes THEN 1
    ELSE IF \E e \in Utf8Table : Len(e[1]) = 2 /\ i + 1 <= Len(b)
                                 /\ SubSeq(b, i, i + 1) = e[1] THEN 2
    ELSE IF \E e \in Utf8Table : Len(e[1]) = 3 /\ i + 2 <= Len(b)
                                 /\ SubSeq(b, i, i + 2) = e[1] THEN 3
    ELSE 0

RECURSIVE Utf8ValidFrom(_, _)
Utf8ValidFrom(b, i) ==
    \/ i > Len(b)
    \/ Utf8Step(b, i) > 0 /\ Utf8ValidFrom(b, i + Utf8Step(b, i))

\* Whether decoding b as UTF-8 succeeds (no UnicodeDecodeError).
Utf8Valid(b) == Utf8ValidFrom(b, 1)

RECURSIVE Utf8DecodeFrom(_, _)
Utf8DecodeFrom(b, i) ==
    IF i > Len(b) THEN <<>>
    ELSE LET n == Utf8Step(b, i)
             c == IF n = 1 THEN b[i]
                  ELSE (CHOOSE e \in Utf8Table : e[1] = SubSeq(b, i, i + n - 1))[2]
         IN  <<c>> \o Utf8DecodeFrom(b, i + n)

DecodeUtf8(b) == Utf8DecodeFrom(b, 1)

DecodeLatin1(b) ==
    [i \in 1..Len(b) |->
        IF b[i] \in HighBytes
        THEN (CHOOSE e \in Latin1Table : e[1] = b[i])[2]
        ELSE b[i]]

\* An encoder for open(..., 'w', encoding='latin-1').
EncodeCharLatin1(c) ==
    IF \E e \in Latin1Table : e[2] = c
    THEN <<(CHOOSE e \in Latin1Table : e[2] = c)[1]>>
    ELSE <<c>>

EncodeChar(c) ==
    IF \E e \in Utf8Table : e[2] = c
    THEN (CHOOSE e \in Utf8Table : e[2] = c)[1]
    ELSE <<c>>

EncodeUtf8(t) == Concat([i \in 1..Len(t) |-> EncodeChar(t[i])])

\* Text-mode reading (newline=None): "\r\n" and a lone "\r" become "\n".
RECURSIVE UniversalNewlines(_)
UniversalNewlines(t) ==
    IF t = <<>> THEN <<>>
    ELSE IF Head(t) = CR
         THEN <<LF>> \o UniversalNewlines(IF Len(t) > 1 /\ t[2] = LF
                                           THEN SubSeq(t, 3, Len(t))
                                           ELSE Tail(t))
         ELSE <<Head(t)>> \o UniversalNewlines(Tail(t))

\* Text-mode writing (newline=None): "\n" becomes os.linesep.
WriteNewlines(t, linesep) ==
    Concat([i \in 1..Len(t) |-> IF t[i] = LF THEN linesep ELSE <<t[i]>>])

\* f.readlines(): the text cut after every "\n".
RECURSIVE SplitLines(_, _, _)
SplitLines(t, start, i) ==
    IF i > Len(t)
    THEN IF start > Len(t) THEN <<>> ELSE <<SubSeq(t, start, Len(t))>>
    ELSE IF t[i] = LF
         THEN <<SubSeq(t, start, i)>> \o SplitLines(t, i + 1, i + 1)
         ELSE SplitLines(t, start, i + 1)

readlines(b) ==
    SplitLines(UniversalNewlines(IF Utf8Valid(b) THEN DecodeUtf8(b)
                                                 ELSE DecodeLatin1(b)), 1, 1)

----------------------------------------------------------------------------
(* String operations used by the rewrite engine.                           *)

\* A line that keeps its terminator.
rstrip_nothing(s) == s

\* line.rstrip('\r\n')
RECURSIVE rstrip_crlf(_)
rstrip_crlf(s) ==
    IF s # <<>> /\ s[Len(s)] \in {CR, LF}
    THEN rstrip_crlf(SubSeq(s, 1, Len(s) - 1))
    ELSE s

\* A replacement that stops after the first backslash.
replace_first_backslash(s) ==
    [i \in 1..Len(s) |->
        IF s[i] = BS /\ (\A j \in 1..(i - 1) : s[j] # BS) THEN "/" ELSE s[i]]

\* s.replace("\\", "/")
replace_backslash(s) == [i \in 1..Len(s) |-> IF s[i] = BS THEN "/" ELSE s[i]]

\* The upper-case ASCII letters of the model with their lower-case forms.
LowerTable ==
    { <<"N", "n">>, <<"M", "m">>, <<"U", "u">>, <<"S", "s">>, <<"I", "i">>,
      <<"C", "c">>, <<"A", "a">> }

\* Case folding of re.IGNORECASE on the characters of the model: one character
\* for one character; U+0130 (capital I with dot above) folds to "i".
Lower(c) ==
    IF \E e \in LowerTable : e[1] = c
    THEN (CHOOSE e \in LowerTable : e[1] = c)[2]
    ELSE IF c = "U+0130" THEN "i" ELSE c

\* The replacement argument of re.sub is a template: a backslash starts an
\* escape.  "\\\\" is a backslash, "\\n" a newline; a backslash before another
\* ASCII letter, or at the end, raises re.error; before any other character
\* it is kept with that character.
AsciiLetters == {e[1] : e \in LowerTable} \cup {e[2] : e \in LowerTable}

RECURSIVE TemplateOk(_)
TemplateOk(r) ==
    IF r = <<>> THEN TRUE
    ELSE IF Head(r) # BS THEN TemplateOk(Tail(r))
    ELSE /\ Len(r) >= 2
         /\ (r[2] \in AsciiLetters => r[2] = "n")
         /\ TemplateOk(SubSeq(r, 3, Len(r)))

RECURSIVE TemplateExpand(_)
TemplateExpand(r) ==
    IF r = <<>> THEN <<>>
    ELSE IF Head(r) # BS THEN <<Head(r)>> \o TemplateExpand(Tail(r))
    ELSE (IF r[2] = BS THEN <<BS>>
          ELSE IF r[2] = "n" THEN <<LF>>
          ELSE <<BS, r[2]>>) \o TemplateExpand(SubSeq(r, 3, Len(r)))

\* The pattern re.escape(p) matches p literally; with re.IGNORECASE, in any
\* letter case.
MatchAt(p, s, i) ==
    /\ i + Len(p) - 1 <= Len(s)
    /\ \A k \in 1..Len(p) : Lower(s[i + k - 1]) = Lower(p[k])

\* The scan of re.sub: leftmost match first, then on from its end.
RECURSIVE SubFrom(_, _, _, _)
SubFrom(p, lit, s, i) ==
    IF i > Len(s) THEN <<>>
    ELSE IF MatchAt(p, s, i) THEN lit \o SubFrom(p, lit, s, i + Len(p))
    ELSE <<s[i]>> \o SubFrom(p, lit, s, i + 1)

\* re.sub(re.escape(p), repl, s, flags=re.IGNORECASE), p non-empty, for a
\* template that is well formed.
re_sub(p, repl, s) == SubFrom(p, TemplateExpand(repl), s, 1)

----------------------------------------------------------------------------
(* The rewrite engine: the loop body of convert_single_playlist.           *)

\* A loop body that normalizes the slashes before it looks for the directive
\* marker.
ProcessLineSlashesFirst(line, windows_prefix, linux_prefix) ==
    LET slashed == replace_backslash(line)
    IN  IF StartsWith(slashed, "#") THEN [out |-> slashed, track |-> 0]
        ELSE LET cleaned_line == rstrip_crlf(slashed)
             IN  IF cleaned_line = <<>> THEN [out |-> <<LF>>, track |-> 0]
                 ELSE [out |-> Append(IF windows_prefix # <<>>
                                      THEN re_sub(windows_prefix, linux_prefix, cleaned_line)
                                      ELSE cleaned_line, LF),
                       track |-> 1]

\* A loop body that counts every line that is not a directive.
ProcessLineCountsBlank(line, windows_prefix, linux_prefix) ==
    IF StartsWith(line, "#") THEN [out |-> line, track |-> 0]
    ELSE LET cleaned_line == rstrip_crlf(line)
         IN  IF cleaned_line = <<>> THEN [out |-> <<LF>>, track |-> 1]
             ELSE [out |-> Append(IF windows_prefix # <<>>
                                  THEN re_sub(windows_prefix, linux_prefix,
                                              replace_backslash(cleaned_line))
                                  ELSE replace_backslash(cleaned_line), LF),
                   track |-> 1]

\* One iteration: the line appended to new_lines and the increment of
\* track_count.
ProcessLine(line, windows_prefix, linux_prefix) ==
    IF StartsWith(line, "#") THEN [out |-> line, track |-> 0]
    ELSE LET cleaned_line == rstrip_crlf(line)
         IN  IF cleaned_line = <<>> THEN [out |-> <<LF>>, track |-> 0]
             ELSE LET slashed == replace_backslash(cleaned_line)
                      subbed  == IF windows_prefix # <<>>
                                 THEN re_sub(windows_prefix, linux_prefix, slashed)
                                 ELSE slashed
                  IN  [out |-> Append(subbed, LF), track |-> 1]

\* Whether the loop raises re.error: re.sub is called (a path entry, a
\* non-empty windows_prefix) with a malformed template.
LoopRaises(lines, windows_prefix, linux_prefix) ==
    /\ windows_prefix # <<>>
    /\ ~TemplateOk(linux_prefix)
    /\ \E i \in 1..Len(lines) :
          ~StartsWith(lines[i], "#") /\ rstrip_crlf(lines[i]) # <<>>

\* new_lines after the loop.
NewLines(lines, windows_prefix, linux_prefix) ==
    [i \in 1..Len(lines) |-> ProcessLine(lines[i], windows_prefix, linux_prefix).out]

RECURSIVE SumTracks(_, _, _)
SumTracks(lines, windows_prefix, linux_prefix) ==
    IF lines = <<>> THEN 0
    ELSE ProcessLine(Head(lines), windows_prefix, linux_prefix).track
         + SumTracks(Tail(lines), windows_prefix, linux_prefix)

\* The bytes f_out.writelines(new_lines) sends to the file.
OutputBytes(new_lines, linesep) ==
    EncodeUtf8(WriteNewlines(Concat(new_lines), linesep))

----------------------------------------------------------------------------
(* The file system and the platform.                                       *)

VARIABLES
    files,           \* path of a regular file -> its bytes
    dirs,            \* paths of the directories
    os_linesep,      \* os.linesep: <<LF>> (POSIX) or <<CR, LF>> (Windows)
    io_fault,        \* file name -> the I/O failure the environment has in store
    mkdir_ok,        \* whether os.makedirs(output_folder) can succeed
    windows_prefix,  \* the source prefix
    linux_prefix,    \* the target prefix
    pc,              \* position in main (or in the single call)
    run,             \* number of the current run
    output_folder,   \* main: output_folder
    m3u_files,       \* fix_playlists_batch: m3u_files
    idx,             \* fix_playlists_batch: files processed so far
    success_count,   \* fix_playlists_batch: success_count
    error_count,     \* fix_playlists_batch: error_count
    errors,          \* fix_playlists_batch: errors
    ret,             \* last value returned by convert_single_playlist
    results,         \* file name -> value convert_single_playlist returned in this run
    attempts,        \* file names passed to convert_single_playlist in this run
    opened_w,        \* paths opened for writing since the start
    files0,          \* the file system before the first run
    before_call,     \* the file system before the last call of convert_single_playlist
    prev,            \* m3u_files, results and files at the end of the previous run
    exit_code,       \* exit status of the process, NoExit while it runs
    in_dir,          \* main: input_folder as get_input_folder returned it
    prompts,         \* prompts answered in the prompt loop main is in
    entered,         \* get_input_folder: the (path, retry answer) pairs so far
    detection,       \* how auto_detect_windows_prefix ended
    sample_path,     \* auto_detect_windows_prefix: sample_path
    suggested_prefix,\* auto_detect_windows_prefix: suggested_prefix
    samples,         \* preview_conversion: samples
    confirmed,       \* preview_conversion: the answer to "Proceed?" ("y", "n"),
                     \* "not asked" before it, "error" if it ended without asking
    steps,           \* the functions main has called in this run, in order
    net_dest,        \* main: network_path
    copy_confirmed,  \* copy_to_network_share: the operator answered y
    copied,          \* copy_to_network_share: the names of the files copied
    copy_errors,     \* copy_to_network_share: the names in its list errors
    dirs0,           \* the directories before the first run
    discovery        \* SpecDiscover: what find_m3u_files gave its caller

\* The state of the interactive part of main, steps apart.
prompt_state == <<in_dir, prompts, entered, detection, sample_path, suggested_prefix,
                  samples, confirmed, net_dest, copy_confirmed, copied, copy_errors, dirs0, discovery>>

\* The state of the interactive part of main.
ui == <<prompt_state, steps>>

vars == <<files, dirs, os_linesep, io_fault, mkdir_ok, windows_prefix, linux_prefix,
          pc, run, output_folder, m3u_files, idx, success_count, error_count,
          errors, ret, results, attempts, opened_w, files0, before_call, prev,
          exit_code, ui>>

\* A file name is <<stem, extension>>; f.endswith(".m3u") looks at the extension.
P_M3U  == <<"p", ".m3u">>
Q_M3U8 == <<"q", ".m3u8">>
X_M3U  == <<"X", ".M3U">>
CONVERTED_FOR_LINUX == <<"converted_for_linux", "">>

input_folder == <<<<"in", "">>>>

\* os.path.join(folder, name)
Join(folder, name) == Append(folder, name)

Basename(path) == path[Len(path)]

Dirname(path) == SubSeq(path, 1, Len(path) - 1)

\* os.path.exists(path)
Exists(path) == path \in DOMAIN files \/ path \in dirs

\* os.listdir(folder), as a set: the order is the file system's.
listdir(folder) ==
    {Basename(q) : q \in {q \in (DOMAIN files) \cup dirs :
                             Len(q) = Len(folder) + 1 /\ Dirname(q) = folder}}

\* The OSError os.listdir(folder) raises, "none" if it lists the folder.
listdir_raises(folder) ==
    IF ~Exists(folder) THEN "FileNotFoundError"
    ELSE IF folder \notin dirs THEN "NotADirectoryError"
    ELSE "none"

\* A discovery that takes the extension in any letter case.
find_m3u_files_any_case(folder_path) ==
    IF listdir_raises(folder_path) # "none" THEN {}
    ELSE {f \in listdir(folder_path) : f[2] \in {".m3u", ".m3u8", ".M3U", ".M3U8"}}

\* The exceptions the handler of find_m3u_files catches (line 85).
OSErrors == {"FileNotFoundError", "NotADirectoryError", "PermissionError"}

\* What find_m3u_files raises: nothing that is an OSError.
find_m3u_files_raises(folder_path) ==
    IF listdir_raises(folder_path) \in OSErrors THEN "none"
    ELSE listdir_raises(folder_path)

\* The names find_m3u_files returns: those that end with ".m3u" or ".m3u8",
\* and none when os.listdir raises (lines 85-86).
find_m3u_files(folder_path) ==
    IF listdir_raises(folder_path) # "none" THEN {}
    ELSE {f \in listdir(folder_path) : f[2] = ".m3u" \/ f[2] = ".m3u8"}

\* The orders in which os.listdir may list a set of names.
Orders(S) ==
    {s \in [1..Cardinality(S) -> S] : \A i, j \in 1..Cardinality(S) : s[i] = s[j] => i = j}

\* An output folder that is the input folder itself.
OutputFolderInPlace(folder) == folder

\* main, line 572.
OutputFolder(folder) == Join(folder, CONVERTED_FOR_LINUX)

Faults == {"none", "EACCES_read", "EACCES_write", "ENOSPC"}

\* A file opened in mode 'a': the data lands after what the file held.
WriteFileAppend(old, data) == old \o data

\* What open(output_path, 'w') followed by a write of data leaves in a file
\* that held old: mode 'w' truncates first.
WriteFile(old, data) == data

PutFile(path, bytes) ==
    [q \in (DOMAIN files) \cup {path} |-> IF q = path THEN bytes ELSE files[q]]

NONE == "None"

\* How many bytes reach the file when the device fills up during the write:
\* any number short of all of them; the model takes the least and the most.
PartialLengths(data) == {0, Len(data) - 1}

\* The outcomes of one call: the returned (success, track_count, error_msg),
\* the file system it leaves and the paths it opened for writing.
convert_single_playlist(input_path, output_path, wp, lp) ==
    LET fault == io_fault[Basename(input_path)]
        lines == readlines(files[input_path])
        data  == OutputBytes(NewLines(lines, wp, lp), os_linesep)
        old   == IF output_path \in DOMAIN files THEN files[output_path] ELSE <<>>
        Failed(msg, fs, w) ==
            [success |-> FALSE, track_count |-> 0, error_msg |-> msg,
             files |-> fs, opened |-> w]
    IN  IF input_path \notin DOMAIN files
        THEN {Failed("[Errno 2] No such file or directory", files, {})}
        ELSE IF fault = "EACCES_read"
        THEN {Failed("Permission denied: [Errno 13] Permission denied", files, {})}
        ELSE IF LoopRaises(lines, wp, lp)
        THEN {Failed("bad escape", files, {})}
        ELSE IF Dirname(output_path) \notin dirs
        THEN {Failed("[Errno 2] No such file or directory", files, {})}
        ELSE IF fault = "EACCES_write"
        THEN {Failed("Permission denied: [Errno 13] Permission denied", files, {})}
        ELSE IF fault = "ENOSPC" /\ data # <<>>
        THEN {Failed("[Errno 28] No space left on device",
                     PutFile(output_path, WriteFile(old, SubSeq(data, 1, k))),
                     {output_path}) : k \in PartialLengths(data)}
        ELSE {[success |-> TRUE, track_count |-> SumTracks(lines, wp, lp),
               error_msg |-> NONE,
               files |-> PutFile(output_path, WriteFile(old, data)),
               opened |-> {output_path}]}

----------------------------------------------------------------------------
(* Inputs.                                                                 *)

\* The bytes playlist contents are made of.
ByteAlphabet == {"#", BS, "/", "n", "N", LF, CR, "xE9"}

\* Longer contents: a directive and a path entry with CRLF terminators, a
\* UTF-8 encoded character, a blank line between entries, a prefix that
\* occurs twice.
LongContents ==
    { <<"#", "n", CR, LF, "N", BS, "n", CR, LF>>,
      <<"#", "xC3", "xA9", LF, "n", "/", "xC3", "xA9", LF>>,
      <<"#", BS, LF, LF, "n", "/", "N", "/", "n">>,
      <<"n", "/", "n", LF, "#", "n", "/", LF>> }

Contents == SeqsUpTo(ByteAlphabet, MaxLen) \cup LongContents

SourcePrefixes == { <<>>, <<"n">>, <<"n", "/">> }

TargetPrefixes ==
    { <<>>, <<"/">>, <<"N", "/">>, <<BS, BS>>, <<BS, "n">>, <<BS, "N">> }

Platforms == { <<LF>>, <<CR, LF>> }

NoRun == [m3u_files |-> <<>>, results |-> <<>>, files |-> <<>>]

NoRet == [success |-> FALSE, track_count |-> 0, error_msg |-> NONE]

\* discovery before find_m3u_files is called.
NoDiscovery == [raised |-> "none", names |-> {}]

\* exit_code while the process runs.
NoExit == 0 - 1

\* What every specification starts from, apart from the inputs.
InitLocals ==
    /\ run = 1
    /\ output_folder = OutputFolder(input_folder)
    /\ m3u_files = <<>>
    /\ idx = 0
    /\ success_count = 0
    /\ error_count = 0
    /\ errors = <<>>
    /\ ret = NoRet
    /\ results = <<>>
    /\ attempts = <<>>
    /\ opened_w = {}
    /\ files0 = files
    /\ before_call = files
    /\ prev = NoRun
    /\ exit_code = NoExit
    /\ prompts = 0
    /\ entered = <<>>
    /\ detection = "not run"
    /\ suggested_prefix = <<>>
    /\ samples = <<>>
    /\ steps = <<>>
    /\ net_dest = <<>>
    /\ copy_confirmed = FALSE
    /\ copied = {}
    /\ copy_errors = {}
    /\ dirs0 = dirs
    /\ discovery = NoDiscovery

----------------------------------------------------------------------------
(* SpecConv: one call of convert_single_playlist on one file, for every    *)
(* content, prefix mapping and platform of the model.                      *)

IN_P  == Join(input_folder, P_M3U)
OUT_P == Join(OutputFolder(input_folder), P_M3U)

InitConv ==
    /\ \E c \in Contents : files = (IN_P :> c)
    /\ dirs = {input_folder, OutputFolder(input_folder)}
    /\ os_linesep \in Platforms
    /\ \E f \in Faults :
          /\ f # "none" => files[IN_P] \in LongContents
          /\ io_fault = (P_M3U :> f)
    /\ mkdir_ok = TRUE
    /\ windows_prefix \in SourcePrefixes
    /\ linux_prefix \in TargetPrefixes
    /\ pc = "call"
    /\ in_dir = input_folder
    /\ confirmed = "y"
    /\ sample_path = <<>>
    /\ InitLocals

call_convert ==
    /\ pc = "call"
    /\ \E o \in convert_single_playlist(IN_P, OUT_P, windows_prefix, linux_prefix) :
          /\ ret' = [success |-> o.success, track_count |-> o.track_count,
                     error_msg |-> o.error_msg]
          /\ files' = o.files
          /\ opened_w' = opened_w \cup o.opened
    /\ before_call' = files
    /\ pc' = "returned"
    /\ UNCHANGED <<dirs, os_linesep, io_fault, mkdir_ok, windows_prefix, linux_prefix,
                   run, output_folder, m3u_files, idx, success_count, error_count,
                   errors, results, attempts, files0, prev, exit_code, ui>>

NextConv == call_convert

SpecConv == InitConv /\ [][NextConv]_vars

----------------------------------------------------------------------------
(* The lines of a file, read off its bytes: a line ends with "\n", with    *)
(* "\r\n", with a "\r" that no "\n" follows, or with the file.             *)

TerminatorEnds(b, j) ==
    \/ b[j] = LF
    \/ b[j] = CR /\ ~(j < Len(b) /\ b[j + 1] = LF)

LineEnd(b, i) ==
    IF \E j \in i..Len(b) : TerminatorEnds(b, j)
    THEN CHOOSE j \in i..Len(b) :
            TerminatorEnds(b, j) /\ \A m \in i..(j - 1) : ~TerminatorEnds(b, m)
    ELSE Len(b)

RECURSIVE LinesFrom(_, _)
LinesFrom(b, i) ==
    IF i > Len(b) THEN <<>>
    ELSE <<SubSeq(b, i, LineEnd(b, i))>> \o LinesFrom(b, LineEnd(b, i) + 1)

ByteLines(b) == LinesFrom(b, 1)

\* The terminator a line ends with, <<>> when it has none.
Terminator(l) ==
    IF Len(l) >= 2 /\ l[Len(l) - 1] = CR /\ l[Len(l)] = LF THEN <<CR, LF>>
    ELSE IF Len(l) >= 1 /\ l[Len(l)] \in {CR, LF} THEN <<l[Len(l)]>>
    ELSE <<>>

\* A line without its terminator.
Content(l) == SubSeq(l, 1, Len(l) - Len(Terminator(l)))

IsDirective(l) == StartsWith(l, "#")
IsBlank(l)     == Content(l) = <<>>
IsPathEntry(l) == ~IsDirective(l) /\ ~IsBlank(l)

\* The characters the engine reads from the bytes of one line of a file.
FileText(file, l) == IF Utf8Valid(file) THEN DecodeUtf8(l) ELSE DecodeLatin1(l)

\* The call of SpecConv has returned success; its input and its output.
Converted == pc = "returned" /\ ret.success
InBytes   == files[IN_P]
OutBytes  == files[OUT_P]
InLines   == ByteLines(InBytes)
OutLines  == ByteLines(OutBytes)

NoBackslash(s) == BS \notin Range(s)

\* The source prefix occurs in s, in some letter case.
Occurs(p, s) == p # <<>> /\ \E i \in 1..Len(s) : MatchAt(p, s, i)

----------------------------------------------------------------------------
(* C1 *)

----------------------------------------------------------------------------
(* C2 *)

\* C2 as stated: after a successful conversion with a non-empty source prefix,
\* every path entry is its slash-normalized input line in which each occurrence
\* of the source prefix, in any letter case and at any position, is replaced by
\* the target prefix taken verbatim, nothing else changed.
C2_PrefixReplacedVerbatim ==
    (Converted /\ windows_prefix # <<>>) =>
        \A k \in 1..Len(InLines) :
            IsPathEntry(InLines[k]) =>
                /\ k <= Len(OutLines)
                /\ DecodeUtf8(Content(OutLines[k]))
                     = SubFrom(windows_prefix, linux_prefix,
                               replace_backslash(FileText(InBytes, Content(InLines[k]))), 1)

----------------------------------------------------------------------------
(* C3 *)

\* C3 as stated: after a successful conversion no line of the output that is
\* neither a directive nor blank holds a backslash, whatever the prefixes.
C3_NoBackslashAnyPrefix ==
    Converted =>
        \A k \in 1..Len(OutLines) :
            IsPathEntry(OutLines[k]) => NoBackslash(OutLines[k])

\* C3 as amended: after a successful conversion with a target prefix that holds
\* no backslash, no line of the output that is neither a directive nor blank
\* holds a backslash.
C3_NoBackslashInPathEntries ==
    (Converted /\ NoBackslash(linux_prefix)) =>
        \A k \in 1..Len(OutLines) :
            IsPathEntry(OutLines[k]) => NoBackslash(OutLines[k])

\* A path entry that mixes both slashes has been converted, with a substitution.
C3_Witness ==
    /\ Converted
    /\ NoBackslash(linux_prefix)
    /\ \E k \in 1..Len(InLines) :
          /\ IsPathEntry(InLines[k])
          /\ ~NoBackslash(InLines[k])
          /\ "/" \in Range(InLines[k])
          /\ Occurs(windows_prefix, replace_backslash(InLines[k]))

----------------------------------------------------------------------------
(* C4 *)

\* C4: after a successful conversion the output has as many lines as the input
\* and its k-th line is of the kind of the k-th input line unless a path entry
\* was rewritten to nothing or to a directive: a directive stays one with its
\* characters, a blank line stays blank.
C4_LinesKeptInOrder ==
    Converted =>
        /\ Len(OutLines) = Len(InLines)
        /\ \A k \in 1..Len(InLines) :
              /\ IsDirective(InLines[k]) =>
                    DecodeUtf8(Content(OutLines[k])) = FileText(InBytes, Content(InLines[k]))
              /\ IsBlank(InLines[k]) => IsBlank(OutLines[k])

----------------------------------------------------------------------------
(* C5 *)

NumPathEntries(b) == Cardinality({k \in 1..Len(ByteLines(b)) : IsPathEntry(ByteLines(b)[k])})

\* C5: the track count of a successful conversion is the number of lines of the
\* input that are neither directives nor blank; a file without such a line,
\* when no I/O operation on it fails, converts successfully with track count 0.
C5_TrackCount ==
    pc = "returned" =>
        /\ ret.success => ret.track_count = NumPathEntries(InBytes)
        /\ (NumPathEntries(InBytes) = 0 /\ io_fault[P_M3U] = "none") =>
                ret.success /\ ret.track_count = 0

\* A file with a directive, a blank line and path entries has been converted.
C5_Witness ==
    /\ Converted
    /\ ret.track_count >= 1
    /\ \E k \in 1..Len(InLines) : IsDirective(InLines[k])
    /\ \E k \in 1..Len(InLines) : IsBlank(InLines[k])

----------------------------------------------------------------------------
(* Spec: main from step 5 on (the prefixes are those steps 2 and 3 return: *)
(* slash-normalized, non-empty, ending with "/"), run MaxRuns times over   *)
(* the same input directory.                                               *)

\* Contents of the playlists of the input directory.
BatchContents ==
    { <<"#", "n", CR, LF, "n", BS, "n", CR, LF>>,
      <<"/", "n", LF, LF, "xE9">>,
      <<"#", BS, LF>> }

\* Prefix mappings main can pass on.
BatchMappings ==
    { <<<<"n", "/">>, <<".", ".", "/">>>>,
      <<<<"/">>, <<"/", "/">>>> }

\* A playlist an earlier run left in the output directory.
StaleOutput == <<"n", LF, "n", LF, "n", LF, "n", LF, "n", LF, "n", LF>>

Init ==
    /\ mkdir_ok \in BOOLEAN
    /\ \E c1, c2 \in BatchContents, stale \in {FALSE, mkdir_ok} :
          /\ files = IF stale
                     THEN (Join(input_folder, P_M3U) :> c1) @@ (Join(input_folder, Q_M3U8) :> c2)
                          @@ (Join(input_folder, X_M3U) :> <<"n", LF>>)
                          @@ (Join(OutputFolder(input_folder), P_M3U) :> StaleOutput)
                     ELSE (Join(input_folder, P_M3U) :> c1) @@ (Join(input_folder, Q_M3U8) :> c2)
                          @@ (Join(input_folder, X_M3U) :> <<"n", LF>>)
          /\ dirs = IF stale THEN {input_folder, OutputFolder(input_folder)}
                             ELSE {input_folder}
    /\ os_linesep \in Platforms
    /\ io_fault \in [{P_M3U, Q_M3U8} -> Faults]
    /\ \E m \in BatchMappings : windows_prefix = m[1] /\ linux_prefix = m[2]
    /\ pc = "step5"
    /\ in_dir = input_folder
    /\ confirmed = "y"
    /\ sample_path = <<>>
    /\ InitLocals

\* A bookkeeping that counts a failure without recording it in errors.
AccountForgetsError(success, filename, error_msg, sc, ec, errs) ==
    IF success
    THEN [success_count |-> sc + 1, error_count |-> ec, errors |-> errs]
    ELSE [success_count |-> sc, error_count |-> ec + 1, errors |-> errs]

\* The loop's bookkeeping for one file (lines 403-409).
Account(success, filename, error_msg, sc, ec, errs) ==
    IF success
    THEN [success_count |-> sc + 1, error_count |-> ec, errors |-> errs]
    ELSE [success_count |-> sc, error_count |-> ec + 1,
          errors |-> Append(errs, <<filename, error_msg>>)]

\* A loop that stops at the first failure.
NextIndexStopsAtFailure(i, success, total_files) ==
    IF success THEN i + 1 ELSE total_files

\* The for loop goes on to the next file whatever the outcome (line 391).
NextIndex(i, success, total_files) == i + 1

\* main, lines 571-575, and fix_playlists_batch up to its loop (lines 367-389).
main_step5 ==
    /\ pc = "step5"
    /\ output_folder' = OutputFolder(input_folder)
    /\ IF ~Exists(output_folder') /\ ~mkdir_ok
       THEN /\ m3u_files' = <<>>
            /\ pc' = "summary"
            /\ dirs' = dirs
       ELSE /\ dirs' = IF Exists(output_folder') THEN dirs ELSE dirs \cup {output_folder'}
            /\ m3u_files' \in Orders(find_m3u_files(input_folder))
            /\ pc' = IF Len(m3u_files') = 0 THEN "summary" ELSE "batch_loop"
    /\ idx' = 0
    /\ success_count' = 0
    /\ error_count' = 0
    /\ errors' = <<>>
    /\ steps' = Append(steps, "fix_playlists_batch")
    /\ UNCHANGED <<files, os_linesep, io_fault, mkdir_ok, windows_prefix, linux_prefix,
                   run, ret, results, attempts, opened_w, files0, before_call, prev,
                   exit_code, prompt_state>>

\* One iteration of the loop of fix_playlists_batch (lines 391-409).
batch_iteration ==
    /\ pc = "batch_loop"
    /\ idx < Len(m3u_files)
    /\ LET filename    == m3u_files[idx + 1]
           input_path  == Join(input_folder, filename)
           output_path == Join(output_folder, filename)
       IN  \E o \in convert_single_playlist(input_path, output_path,
                                            windows_prefix, linux_prefix) :
              LET r   == [success |-> o.success, track_count |-> o.track_count,
                          error_msg |-> o.error_msg]
                  acc == Account(o.success, filename, o.error_msg,
                                 success_count, error_count, errors)
              IN  /\ ret' = r
                  /\ files' = o.files
                  /\ opened_w' = opened_w \cup o.opened
                  /\ success_count' = acc.success_count
                  /\ error_count' = acc.error_count
                  /\ errors' = acc.errors
                  /\ results' = (filename :> r) @@ results
                  /\ attempts' = Append(attempts, filename)
                  /\ idx' = NextIndex(idx, o.success, Len(m3u_files))
    /\ before_call' = files
    /\ UNCHANGED <<dirs, os_linesep, io_fault, mkdir_ok, windows_prefix, linux_prefix,
                   pc, run, output_folder, m3u_files, files0, prev, exit_code, ui>>

\* fix_playlists_batch returns (success_count, error_count, errors) (line 411).
batch_return ==
    /\ pc = "batch_loop"
    /\ idx >= Len(m3u_files)
    /\ pc' = "summary"
    /\ UNCHANGED <<files, dirs, os_linesep, io_fault, mkdir_ok, windows_prefix,
                   linux_prefix, run, output_folder, m3u_files, idx, success_count,
                   error_count, errors, ret, results, attempts, opened_w, files0,
                   before_call, prev, exit_code, ui>>

\* main after the batch (lines 577-586) when nothing is copied to a network
\* share: no file was converted (line 581), or the operator answers n to
\* "Copy to network share?" (lines 429-432).  main returns and the process
\* ends with status 0.
main_finish ==
    /\ pc = "summary"
    /\ pc' = "exit"
    /\ exit_code' = 0
    /\ steps' = IF success_count > 0 THEN Append(steps, "get_network_destination")
                                     ELSE steps
    /\ UNCHANGED <<files, dirs, os_linesep, io_fault, mkdir_ok, windows_prefix,
                   linux_prefix, run, output_folder, m3u_files, idx, success_count,
                   error_count, errors, ret, results, attempts, opened_w, files0,
                   before_call, prev, prompt_state>>

\* The output files of the playlists this run converted.
ConvertedPaths ==
    {Join(output_folder, f) : f \in {f \in DOMAIN results : results[f].success}}

\* The program is started again, with the same answers of the operator.
new_run ==
    /\ pc = "exit"
    /\ run < MaxRuns
    /\ run' = run + 1
    /\ prev' = [m3u_files |-> m3u_files, results |-> results,
                 files |-> [q \in ConvertedPaths |-> files[q]]]
    /\ pc' = "step5"
    /\ exit_code' = NoExit
    /\ steps' = <<>>
    /\ m3u_files' = <<>>
    /\ idx' = 0
    /\ success_count' = 0
    /\ error_count' = 0
    /\ errors' = <<>>
    /\ ret' = NoRet
    /\ results' = <<>>
    /\ attempts' = <<>>
    /\ UNCHANGED <<files, dirs, os_linesep, io_fault, mkdir_ok, windows_prefix,
                   linux_prefix, output_folder, opened_w, files0, before_call,
                   prompt_state>>

Next == main_step5 \/ batch_iteration \/ batch_return \/ main_finish \/ new_run

Spec == Init /\ [][Next]_vars

----------------------------------------------------------------------------
(* Claims about the batch.                                                 *)

\* fix_playlists_batch has returned to main.
BatchReturned == pc \in {"summary", "exit"}

InPath(f)  == Join(input_folder, f)
OutPath(f) == Join(output_folder, f)

\* The output file of f holds the whole rewritten playlist.
OutputComplete(f) ==
    /\ OutPath(f) \in DOMAIN files
    /\ Len(ByteLines(files[OutPath(f)])) = Len(ByteLines(files[InPath(f)]))
    /\ \A l \in Range(ByteLines(files[OutPath(f)])) : Terminator(l) = os_linesep

----------------------------------------------------------------------------
(* C6 *)

\* C6 as stated: whenever convert_single_playlist has returned, either it
\* reported success and the output file holds the whole rewritten playlist, or
\* it reported failure and the file system is as it was before the call.
C6_NeverPartial ==
    attempts # <<>> =>
        IF ret.success THEN OutputComplete(attempts[Len(attempts)])
                       ELSE files = before_call

----------------------------------------------------------------------------
(* C7 *)

\* C7: when the batch returns, every discovered file has been passed to
\* convert_single_playlist, and every one on which no I/O operation fails has
\* been converted and its output file written in full, wherever the failing
\* files stand in the processing order.
C7_FailureDoesNotAbortBatch ==
    BatchReturned =>
        \A i \in 1..Len(m3u_files) :
            LET f == m3u_files[i]
            IN  /\ f \in Range(attempts)
                /\ io_fault[f] = "none" => results[f].success /\ OutputComplete(f)

\* The first file of the batch failed and the second was converted.
C7_Witness ==
    /\ pc = "summary"
    /\ Len(m3u_files) = 2
    /\ Len(attempts) = 2
    /\ ~results[m3u_files[1]].success
    /\ results[m3u_files[2]].success

----------------------------------------------------------------------------
(* C8 *)

RECURSIVE FailedPairs(_)
FailedPairs(names) ==
    IF names = <<>> THEN <<>>
    ELSE (IF results[Head(names)].success THEN <<>>
          ELSE << <<Head(names), results[Head(names)].error_msg>> >>)
         \o FailedPairs(Tail(names))

\* C8: the files passed to convert_single_playlist so far are the first idx
\* discovered files, in discovery order, each once; success_count + error_count
\* is their number; errors holds, in processing order, one (filename, reason)
\* pair, the reason not empty, for each of them that failed; and when the batch
\* returns every discovered file has been processed.
C8_BatchReportAccounting ==
    /\ idx = Len(attempts)
    /\ idx <= Len(m3u_files)
    /\ attempts = SubSeq(m3u_files, 1, idx)
    /\ \A i, j \in 1..Len(m3u_files) : m3u_files[i] = m3u_files[j] => i = j
    /\ success_count + error_count = idx
    /\ error_count = Len(errors)
    /\ errors = FailedPairs(attempts)
    /\ \A i \in 1..Len(errors) : errors[i][2] \notin {"", NONE}
    /\ BatchReturned => idx = Len(m3u_files)

\* A batch has returned with two failures of different kinds.
C8_Witness ==
    /\ pc = "summary"
    /\ Len(errors) = 2
    /\ errors[1][2] # errors[2][2]

----------------------------------------------------------------------------
(* C9 *)

InputPaths == {q \in DOMAIN files0 : Dirname(q) = input_folder}

\* C9: the output directory is not the input directory, every file of the
\* input directory holds at all times what it held before the first run, and
\* no path of the input directory is ever opened for writing.
C9_InputsNeverMutated ==
    /\ output_folder # input_folder
    /\ \A q \in InputPaths : q \in DOMAIN files /\ files[q] = files0[q]
    /\ \A q \in opened_w : Dirname(q) # input_folder

\* A second run has ended, with a converted file and a failed one.
C9_Witness ==
    /\ pc = "exit"
    /\ run >= 2
    /\ success_count >= 1
    /\ error_count >= 1
    /\ opened_w # {}

----------------------------------------------------------------------------
(* C10 *)

ConvertedBefore(f) ==
    /\ prev.results # <<>>
    /\ f \in DOMAIN prev.results
    /\ prev.results[f].success

\* C10: when a run that follows another one returns from the batch, it has
\* discovered the same files as the run before, and the output file of every
\* playlist both runs converted holds the bytes it held after the run before.
C10_SecondRunSameOutputs ==
    (run > 1 /\ BatchReturned) =>
        /\ Len(m3u_files) = Len(prev.m3u_files)
        /\ Range(m3u_files) = Range(prev.m3u_files)
        /\ \A i \in 1..Len(attempts) :
              LET f == attempts[i]
              IN  (results[f].success /\ ConvertedBefore(f)) =>
                      files[OutPath(f)] = prev.files[OutPath(f)]

\* A second run has converted a playlist the first run had converted, the
\* directory listed in another order.
C10_Witness ==
    /\ run = 2
    /\ pc = "exit"
    /\ m3u_files # prev.m3u_files
    /\ \E i \in 1..Len(attempts) :
          results[attempts[i]].success /\ ConvertedBefore(attempts[i])

----------------------------------------------------------------------------
(* Prefix detection: the heuristics of auto_detect_windows_prefix          *)
(* (lines 180-195).                                                        *)

\* The characters str.strip() removes.
Whitespace == {" ", "\t", LF, CR}

\* s.strip()
RECURSIVE strip(_)
strip(s) ==
    IF s # <<>> /\ Head(s) \in Whitespace THEN strip(Tail(s))
    ELSE IF s # <<>> /\ s[Len(s)] \in Whitespace THEN strip(SubSeq(s, 1, Len(s) - 1))
    ELSE s

\* s.lower(): U+0130 becomes two characters, "i" and U+0307 (combining dot
\* above); every other character becomes one.
str_lower(s) ==
    Concat([k \in 1..Len(s) |->
               IF s[k] = "U+0130" THEN <<"i", "U+0307">>
               ELSE IF \E e \in LowerTable : e[1] = s[k]
                    THEN <<(CHOOSE e \in LowerTable : e[1] = s[k])[2]>>
                    ELSE <<s[k]>>])

\* The marker of line 184.
MUSIC == <<"/", "m", "u", "s", "i", "c", "/">>

\* s.rfind(p): the highest 0-based index at which p occurs in s, -1 if none.
rfind(s, p) ==
    LET at == {k \in 0..(Len(s) - Len(p)) : SubSeq(s, k + 1, k + Len(p)) = p}
    IN  IF at = {} THEN 0 - 1 ELSE CHOOSE k \in at : \A j \in at : j <= k

\* s[:n] for n >= 0
SliceTo(s, n) == SubSeq(s, 1, IF n < Len(s) THEN n ELSE Len(s))

\* s.split("/")
RECURSIVE split(_, _, _)
split(s, start, k) ==
    IF k > Len(s) THEN <<SubSeq(s, start, Len(s))>>
    ELSE IF s[k] = "/" THEN <<SubSeq(s, start, k - 1)>> \o split(s, k + 1, k + 1)
    ELSE split(s, start, k + 1)

\* "/".join(parts)
RECURSIVE join(_)
join(parts) ==
    IF parts = <<>> THEN <<>>
    ELSE IF Len(parts) = 1 THEN parts[1]
    ELSE parts[1] \o <<"/">> \o join(Tail(parts))

\* A fallback that drops the last two components only.
fallback_prefix_last_two(parts) ==
    IF Len(parts) > 2
    THEN Append(join(SubSeq(parts, 1, Len(parts) - 2)), "/")
    ELSE <<>>

\* Lines 191-195: everything up to the last 3 path components.
fallback_prefix(parts) ==
    IF Len(parts) > 3
    THEN Append(join(SubSeq(parts, 1, Len(parts) - 3)), "/")
    ELSE <<>>

\* Lines 181-195: suggested_prefix for a sample path.
SuggestPrefix(sample) ==
    LET sample_path_normalized == replace_backslash(sample)
        music_index == rfind(str_lower(sample_path_normalized), MUSIC)
    IN  IF music_index # 0 - 1
        THEN SliceTo(sample_path_normalized, music_index + Len(MUSIC))
        ELSE fallback_prefix(split(sample_path_normalized, 1, 1))

----------------------------------------------------------------------------
(* SpecDetect: the heuristics applied to one sample path.                  *)

\* Most path components a sample has.
MaxSegs == 5

\* The path components samples are made of.
Segments ==
    { <<>>, <<"a">>, <<"m", "u", "s", "i", "c">>, <<"M", "U", "s", "i", "c">>,
      <<"U+0130">> }

\* The components joined with sep.
RECURSIVE JoinWith(_, _)
JoinWith(parts, sep) ==
    IF Len(parts) = 1 THEN parts[1]
    ELSE parts[1] \o <<sep>> \o JoinWith(Tail(parts), sep)

\* Sample paths: what the loop of lines 163-167 can pick, a stripped line
\* that is not empty.
DetectSamples ==
    {p \in UNION {{JoinWith(segs, sep) : segs \in [1..n -> Segments], sep \in {"/", BS}} :
                     n \in 1..MaxSegs} : p # <<>>}

InitDetect ==
    /\ files = <<>>
    /\ dirs = {}
    /\ os_linesep = <<LF>>
    /\ io_fault = <<>>
    /\ mkdir_ok = TRUE
    /\ windows_prefix = <<>>
    /\ linux_prefix = <<>>
    /\ pc = "sample"
    /\ in_dir = input_folder
    /\ confirmed = "not asked"
    /\ InitLocals
    /\ \E p \in DetectSamples : sample_path = p

\* Lines 180-197: the suggestion, then the question "Use this prefix?" if
\* there is one and the manual entry if there is none.
suggest_prefix ==
    /\ pc = "sample"
    /\ suggested_prefix' = SuggestPrefix(sample_path)
    /\ pc' = IF suggested_prefix' # <<>> THEN "ask_confirm" ELSE "ask_manual"
    /\ UNCHANGED <<files, dirs, os_linesep, io_fault, mkdir_ok, windows_prefix,
                   linux_prefix, run, output_folder, m3u_files, idx, success_count,
                   error_count, errors, ret, results, attempts, opened_w, files0,
                   before_call, prev, exit_code, in_dir, prompts, entered, detection,
                   sample_path, samples, confirmed, steps, net_dest, copy_confirmed,
                   copied, copy_errors, dirs0, discovery>>

NextDetect == suggest_prefix

SpecDetect == InitDetect /\ [][NextDetect]_vars

\* Case folding of the ASCII letters alone.
FoldAscii(c) ==
    IF \E e \in LowerTable : e[1] = c THEN (CHOOSE e \in LowerTable : e[1] = c)[2] ELSE c

\* The 1-based positions at which "/music/" stands in s, in any letter case.
MarkerPositions(s) ==
    {k \in 1..(Len(s) - Len(MUSIC) + 1) :
        \A j \in 1..Len(MUSIC) : FoldAscii(s[k + j - 1]) = MUSIC[j]}

Normalized == replace_backslash(sample_path)

\* The heuristics have been applied to the sample.
Suggested == pc \in {"ask_confirm", "ask_manual"}

IsPrefixOf(p, s) == Len(p) <= Len(s) /\ SubSeq(s, 1, Len(p)) = p

----------------------------------------------------------------------------
(* C12 *)

\* C12 as stated: for a sample whose slash-normalized form contains "/music/"
\* in any letter case, the suggested prefix is the normalized sample up to
\* and including the last such occurrence; it ends with "/" and is a prefix
\* of the normalized sample.
C12_MarkerHeuristic ==
    (Suggested /\ MarkerPositions(Normalized) # {}) =>
        LET last == CHOOSE k \in MarkerPositions(Normalized) :
                        \A j \in MarkerPositions(Normalized) : j <= k
        IN  /\ suggested_prefix = SubSeq(Normalized, 1, last + Len(MUSIC) - 1)
            /\ suggested_prefix[Len(suggested_prefix)] = "/"
            /\ IsPrefixOf(suggested_prefix, Normalized)

----------------------------------------------------------------------------
(* C20 *)

\* C20: for a sample whose slash-normalized form contains no "/music/" in any
\* letter case, split on "/": with more than three segments the suggested
\* prefix is all segments but the last three joined with "/" and followed by
\* "/", and the normalized sample is that prefix followed by the last three
\* segments joined with "/" (so the prefix is a proper one); with three
\* segments or fewer there is no suggestion and the manual entry comes next.
C20_FallbackHeuristic ==
    (Suggested /\ MarkerPositions(Normalized) = {}) =>
        LET parts == split(Normalized, 1, 1)
            n     == Len(parts)
        IN  IF n > 3
            THEN /\ suggested_prefix = JoinWith(SubSeq(parts, 1, n - 3), "/") \o <<"/">>
                 /\ Normalized = suggested_prefix \o JoinWith(SubSeq(parts, n - 2, n), "/")
                 /\ IsPrefixOf(suggested_prefix, Normalized)
                 /\ suggested_prefix # Normalized
            ELSE suggested_prefix = <<>> /\ pc = "ask_manual"

\* A sample of five components without the marker has got its suggestion,
\* and the suggestion is more than the root.
C20_Witness ==
    /\ pc = "ask_confirm"
    /\ MarkerPositions(Normalized) = {}
    /\ Len(split(Normalized, 1, 1)) = 5
    /\ Len(suggested_prefix) > 2
    /\ BS \in Range(sample_path)


----------------------------------------------------------------------------
(* SpecMain: one run of main (lines 542-593) with an operator at the       *)
(* prompts.  The run may be a first one or follow an earlier one that left *)
(* its output directory behind.                                            *)

\* Most wrong answers the operator gives to one prompt.
MaxPrompts == 2

\* The environment and the batch driver's state, for UNCHANGED.
env == <<os_linesep, io_fault, mkdir_ok>>

batch_state == <<run, output_folder, m3u_files, idx, success_count, error_count,
                 errors, ret, results, attempts, opened_w, files0, before_call, prev>>

\* Paths the operator may enter: one that does not exist, a regular file, a
\* directory without playlists, the playlist directory, a network share.
NOWHERE   == <<<<"nowhere", "">>>>
A_FILE    == <<<<"notes", "">>>>
OTHER_DIR == <<<<"other", "">>>>
NAS       == <<<<"nas", "">>>>

InputEntries == {NOWHERE, A_FILE, OTHER_DIR, input_folder}

NetworkEntries == {NOWHERE, A_FILE, NAS}

\* os.path.isdir(path)
IsDir(path) == path \in dirs

\* Contents of the first playlist: a path of four components after a
\* directive, directives and blank lines only, a file that is not UTF-8, a
\* path of two components, a path with the marker, a path with the marker
\* after U+0130.
MainContents ==
    { <<"#", "n", LF, "n", "/", "n", "/", "n", "/", "n", LF>>,
      <<"#", "n", LF, " ", LF>>,
      <<"xE9", "/", "n", BS, "n", "/", "n", CR, LF>>,
      <<"n", BS, "n", LF>>,
      <<"/", "M", "u", "s", "i", "c", "/", "n", LF>>,
      <<"xC4", "xB0", "/", "m", "u", "s", "i", "c", "/", "n", "/", "n", LF>> }

\* Contents of the second playlist.
SecondContents ==
    { <<"#", LF>>,
      <<"N", "/", "n", "/", "n", "/", "xE9", LF, "n", LF, "n", LF, "n", LF>> }

\* What the operator may type at "Windows prefix:" and "Enter custom prefix:".
ManualEntries == { <<" ">>, <<"n", BS>>, <<"N">> }

CustomEntries == { <<>>, <<BS>>, <<"N">> }

InitMain ==
    /\ mkdir_ok \in BOOLEAN
    /\ \E c1 \in MainContents, c2 \in SecondContents, stale \in {FALSE, mkdir_ok} :
          LET base == (Join(input_folder, P_M3U) :> c1) @@ (Join(input_folder, Q_M3U8) :> c2)
                      @@ (Join(input_folder, X_M3U) :> <<"n", LF>>)
                      @@ (Join(OTHER_DIR, X_M3U) :> <<"n", LF>>)
                      @@ (A_FILE :> <<"n", LF>>)
          IN  /\ files = IF stale
                         THEN base @@ (Join(OutputFolder(input_folder), P_M3U) :> StaleOutput)
                         ELSE base
              /\ dirs = IF stale
                        THEN {input_folder, OTHER_DIR, NAS, OutputFolder(input_folder)}
                        ELSE {input_folder, OTHER_DIR, NAS}
    /\ os_linesep \in Platforms
    /\ io_fault \in {f \in [{P_M3U, Q_M3U8} -> Faults] :
                        f[P_M3U] = "none" \/ f[Q_M3U8] = "none"}
    /\ windows_prefix = <<>>
    /\ linux_prefix = <<>>
    /\ pc = "step1"
    /\ in_dir = <<>>
    /\ confirmed = "not asked"
    /\ sample_path = <<>>
    /\ InitLocals

\* A validation that does not look for playlists.
ValidInputFolderNoPlaylists(path) == Exists(path) /\ IsDir(path)

\* The checks of get_input_folder (lines 111, 119 and 127-128).
ValidInputFolder(path) == Exists(path) /\ IsDir(path) /\ find_m3u_files(path) # {}

\* One turn of the loop of get_input_folder (lines 95-136), and main's lines
\* 549-552 when it returns.
get_input_folder ==
    /\ pc = "step1"
    /\ \E path \in InputEntries :
          IF ValidInputFolder(path)
          THEN /\ entered' = Append(entered, <<path, "">>)
               /\ in_dir' = path
               /\ pc' = "step2"
               /\ UNCHANGED <<prompts, exit_code>>
          ELSE \E retry \in {"y", "n"} :
                  /\ entered' = Append(entered, <<path, retry>>)
                  /\ in_dir' = <<>>
                  /\ IF retry = "y"
                     THEN /\ prompts < MaxPrompts
                          /\ prompts' = prompts + 1
                          /\ pc' = "step1"
                          /\ UNCHANGED exit_code
                     ELSE /\ pc' = "exit"
                          /\ exit_code' = 0
                          /\ UNCHANGED prompts
    /\ steps' = <<"get_input_folder">>
    /\ UNCHANGED <<files, dirs, env, windows_prefix, linux_prefix, batch_state,
                   detection, sample_path, suggested_prefix, samples, confirmed,
                   net_dest, copy_confirmed, copied, copy_errors, dirs0, discovery>>

\* Lines 162-167: the first line that is neither empty nor a comment once
\* stripped; <<>> for None.
RECURSIVE FirstSample(_)
FirstSample(lines) ==
    IF lines = <<>> THEN <<>>
    ELSE LET line == strip(Head(lines))
         IN  IF line # <<>> /\ ~StartsWith(line, "#") THEN line
             ELSE FirstSample(Tail(lines))

\* Lines 213-215 and 247-250: forward slashes, and a "/" at the end of a
\* prefix that is not empty.
NormalizePrefix(s) ==
    LET prefix == replace_backslash(s)
    IN  IF prefix # <<>> /\ prefix[Len(prefix)] # "/" THEN Append(prefix, "/") ELSE prefix

\* A main that goes on whatever auto_detect_windows_prefix returns.
NotWindowsPrefixNever(prefix) == FALSE

\* main, line 556: "if not windows_prefix".
NotWindowsPrefix(prefix) == prefix = <<>>

\* auto_detect_windows_prefix (lines 139-221) and main's lines 555-558.
auto_detect_windows_prefix ==
    /\ pc = "step2"
    /\ steps' = Append(steps, "auto_detect_windows_prefix")
    /\ prompts' = 0
    /\ entered' = <<>>
    /\ IF find_m3u_files(in_dir) = {}
       THEN /\ detection' = "NoFiles"
            /\ windows_prefix' = <<>>
            /\ UNCHANGED <<sample_path, suggested_prefix>>
       ELSE \E first \in find_m3u_files(in_dir) :
              IF io_fault[first] = "EACCES_read"
              THEN /\ detection' = "ReadError"
                   /\ windows_prefix' = <<>>
                   /\ UNCHANGED <<sample_path, suggested_prefix>>
              ELSE LET sample == FirstSample(readlines(files[Join(in_dir, first)]))
                   IN  /\ sample_path' = sample
                       /\ IF sample = <<>>
                          THEN /\ detection' = "NoSamplePath"
                               /\ windows_prefix' = <<>>
                               /\ UNCHANGED suggested_prefix
                          ELSE /\ suggested_prefix' = SuggestPrefix(sample)
                               /\ \/ /\ suggested_prefix' # <<>>
                                     /\ detection' = "Confirmed"
                                     /\ windows_prefix' = suggested_prefix'
                                  \/ \E manual \in ManualEntries :
                                        /\ detection' = "Manual"
                                        /\ windows_prefix' = NormalizePrefix(strip(manual))
    /\ IF NotWindowsPrefix(windows_prefix')
       THEN pc' = "exit" /\ exit_code' = 0
       ELSE pc' = "step3" /\ UNCHANGED exit_code
    /\ UNCHANGED <<files, dirs, env, linux_prefix, batch_state, in_dir, samples,
                   confirmed, net_dest, copy_confirmed, copied, copy_errors, dirs0, discovery>>

\* A main that takes an empty prefix.
NotLinuxPrefixNever(prefix) == FALSE

\* main, line 562: "if not linux_prefix".
NotLinuxPrefix(prefix) == prefix = <<>>

\* One turn of the loop of get_linux_prefix (lines 237-253), and main's lines
\* 561-564 when it returns.
get_linux_prefix ==
    /\ pc = "step3"
    /\ steps' = IF prompts = 0 THEN Append(steps, "get_linux_prefix") ELSE steps
    /\ \E choice \in {"1", "2", "3", "4"} :
          IF choice \in {"1", "2", "3"}
          THEN /\ \/ choice = "1" /\ linux_prefix' = <<".", ".", "/">>
                  \/ choice = "2" /\ linux_prefix' = <<"/", "m", "u", "s", "i", "c", "/">>
                  \/ choice = "3" /\ \E custom \in CustomEntries :
                                        linux_prefix' = NormalizePrefix(strip(custom))
               /\ prompts' = 0
               /\ IF NotLinuxPrefix(linux_prefix')
                  THEN pc' = "exit" /\ exit_code' = 0
                  ELSE pc' = "step4" /\ UNCHANGED exit_code
          ELSE /\ prompts < MaxPrompts
               /\ prompts' = prompts + 1
               /\ UNCHANGED <<linux_prefix, pc, exit_code>>
    /\ UNCHANGED <<files, dirs, env, windows_prefix, batch_state, in_dir, entered,
                   detection, sample_path, suggested_prefix, samples, confirmed,
                   net_dest, copy_confirmed, copied, copy_errors, dirs0, discovery>>

\* Lines 274-284: up to n (original, converted) pairs.
RECURSIVE PreviewSamples(_, _, _, _)
PreviewSamples(lines, wp, lp, n) ==
    IF lines = <<>> \/ n = 0 THEN <<>>
    ELSE LET stripped == strip(Head(lines))
         IN  IF stripped # <<>> /\ ~StartsWith(stripped, "#")
             THEN << <<stripped, re_sub(wp, lp, replace_backslash(stripped))>> >>
                  \o PreviewSamples(Tail(lines), wp, lp, n - 1)
             ELSE PreviewSamples(Tail(lines), wp, lp, n)

\* A main that goes on to the conversion whatever the operator answers.
AfterPreviewAlways(answer) == "step5"

\* main, lines 567-572: the conversion follows the answer y only.
AfterPreview(answer) == IF answer = "y" THEN "step5" ELSE "exit"

\* preview_conversion (lines 256-298) and main's lines 567-569.
preview_conversion ==
    /\ pc = "step4"
    /\ steps' = Append(steps, "preview_conversion")
    /\ IF find_m3u_files(in_dir) = {}
       THEN confirmed' = "error" /\ UNCHANGED samples
       ELSE \E first \in find_m3u_files(in_dir) :
              IF io_fault[first] = "EACCES_read"
              THEN confirmed' = "error" /\ UNCHANGED samples
              ELSE /\ samples' = PreviewSamples(readlines(files[Join(in_dir, first)]),
                                                windows_prefix, linux_prefix, 3)
                   /\ confirmed' \in {"y", "n"}
    /\ pc' = AfterPreview(confirmed')
    /\ exit_code' = IF pc' = "exit" THEN 0 ELSE exit_code
    /\ UNCHANGED <<files, dirs, env, windows_prefix, linux_prefix, batch_state, in_dir,
                   prompts, entered, detection, sample_path, suggested_prefix,
                   net_dest, copy_confirmed, copied, copy_errors, dirs0, discovery>>


\* A main that offers the copy whatever the batch returned.
CopyOfferedAlways(count) == TRUE

\* main, line 581: "if success_count > 0".
CopyOffered(count) == count > 0

\* get_network_destination (lines 418-472), called when a file was converted
\* (line 581) and the operator answers y to "Copy to network share?": one
\* turn of its loop, and main's line 583 when it returns.
get_network_destination ==
    /\ \/ pc = "summary" /\ CopyOffered(success_count)
       \/ pc = "step6"
    /\ steps' = IF pc = "summary" THEN Append(steps, "get_network_destination") ELSE steps
    /\ \E path \in NetworkEntries, writable \in BOOLEAN :
          IF Exists(path) /\ IsDir(path) /\ writable
          THEN /\ net_dest' = path
               /\ prompts' = 0
               /\ pc' = "copy"
               /\ UNCHANGED exit_code
          ELSE \E retry \in {"y", "n"} :
                  /\ net_dest' = <<>>
                  /\ IF retry = "y"
                     THEN /\ prompts < MaxPrompts
                          /\ prompts' = prompts + 1
                          /\ pc' = "step6"
                          /\ UNCHANGED exit_code
                     ELSE /\ prompts' = 0
                          /\ pc' = "exit"
                          /\ exit_code' = 0
    /\ UNCHANGED <<files, dirs, env, windows_prefix, linux_prefix, batch_state, in_dir,
                   entered, detection, sample_path, suggested_prefix, samples,
                   confirmed, copy_confirmed, copied, copy_errors, dirs0, discovery>>

\* The files after shutil.copy2 has copied the files named in names from
\* source_folder to dest_path.
RECURSIVE CopyFiles(_, _, _, _)
CopyFiles(fs, names, source_folder, dest_path) ==
    IF names = {} THEN fs
    ELSE LET f == CHOOSE f \in names : TRUE
             rest == CopyFiles(fs, names \ {f}, source_folder, dest_path)
         IN  (Join(dest_path, f) :> fs[Join(source_folder, f)]) @@ rest

\* copy_to_network_share (lines 475-535) and the end of main (line 586);
\* shutil.copy2 may fail on any of the files.
copy_to_network_share ==
    /\ pc = "copy"
    /\ steps' = Append(steps, "copy_to_network_share")
    /\ LET names == find_m3u_files(output_folder)
       IN  \/ /\ names # {}
              /\ copy_confirmed' = TRUE
              /\ \E failed \in SUBSET names :
                    /\ copied' = names \ failed
                    /\ copy_errors' = failed
                    /\ files' = CopyFiles(files, copied', output_folder, net_dest)
           \/ UNCHANGED <<copy_confirmed, copied, copy_errors, files>>
    /\ pc' = "exit"
    /\ exit_code' = 0
    /\ UNCHANGED <<dirs, env, windows_prefix, linux_prefix, batch_state, in_dir, prompts,
                   entered, detection, sample_path, suggested_prefix, samples,
                   confirmed, net_dest, dirs0, discovery>>

\* Lines 588-593: sys.exit(1) for a KeyboardInterrupt and for an Exception.
ExceptStatus(kind) == 1

\* The positions of main at which the operator can press Ctrl+C, or input()
\* can raise EOFError.
Running ==
    {"step1", "step2", "step3", "step4", "step5", "batch_loop", "summary", "step6", "copy"}

\* main's handlers (lines 588-593).
main_except ==
    /\ pc \in Running
    /\ \E kind \in {"KeyboardInterrupt", "Exception"} :
          /\ steps' = Append(steps, kind)
          /\ exit_code' = ExceptStatus(kind)
    /\ pc' = "exit"
    /\ UNCHANGED <<files, dirs, env, windows_prefix, linux_prefix, batch_state,
                   prompt_state>>

NextMain ==
    \/ get_input_folder
    \/ auto_detect_windows_prefix
    \/ get_linux_prefix
    \/ preview_conversion
    \/ main_step5
    \/ batch_iteration
    \/ batch_return
    \/ main_finish
    \/ get_network_destination
    \/ copy_to_network_share
    \/ main_except

SpecMain == InitMain /\ [][NextMain]_vars


----------------------------------------------------------------------------
(* SpecDiscover: find_m3u_files called on a path that is a directory, a    *)
(* regular file or nothing.                                                *)

\* A directory whose name ends with ".m3u", and a file that is no playlist.
SUB_M3U   == <<"sub", ".m3u">>
NOTES_TXT == <<"notes", ".txt">>

PlainNames == {P_M3U, Q_M3U8, X_M3U, NOTES_TXT}

InitDiscover ==
    /\ \E present \in SUBSET PlainNames, sub \in BOOLEAN :
          /\ files = [q \in {Join(input_folder, f) : f \in present} \cup {A_FILE}
                        |-> <<"n", LF>>]
          /\ dirs = IF sub THEN {input_folder, Join(input_folder, SUB_M3U)}
                           ELSE {input_folder}
    /\ in_dir \in {input_folder, A_FILE, NOWHERE}
    /\ os_linesep = <<LF>>
    /\ io_fault = <<>>
    /\ mkdir_ok = TRUE
    /\ windows_prefix = <<>>
    /\ linux_prefix = <<>>
    /\ pc = "discover"
    /\ confirmed = "not asked"
    /\ sample_path = <<>>
    /\ InitLocals

\* m3u_files = find_m3u_files(in_dir)
discover ==
    /\ pc = "discover"
    /\ discovery' = [raised |-> find_m3u_files_raises(in_dir),
                     names  |-> find_m3u_files(in_dir)]
    /\ m3u_files' \in Orders(find_m3u_files(in_dir))
    /\ pc' = "discovered"
    /\ UNCHANGED <<files, dirs, env, windows_prefix, linux_prefix, run, output_folder,
                   idx, success_count, error_count, errors, ret, results, attempts,
                   opened_w, files0, before_call, prev, exit_code, steps,
                   in_dir, prompts, entered, detection, sample_path, suggested_prefix,
                   samples, confirmed, net_dest, copy_confirmed, copied, copy_errors, dirs0>>

NextDiscover == discover

SpecDiscover == InitDiscover /\ [][NextDiscover]_vars

\* The entries of the directory d whose name ends with ".m3u" or ".m3u8",
\* read off the file system.
PlaylistEntries(d) ==
    {q[Len(q)] : q \in {q \in (DOMAIN files) \cup dirs :
                           /\ Len(q) = Len(d) + 1
                           /\ SubSeq(q, 1, Len(d)) = d
                           /\ q[Len(q)][2] \in {".m3u", ".m3u8"}}}

----------------------------------------------------------------------------
(* C17 *)

----------------------------------------------------------------------------
(* Claims about the workflow of main.                                      *)

Last(q) == q[Len(q)]

\* main has called f in this run.
Called(f) == f \in Range(steps)

\* The run was ended by one of main's handlers.
Interrupted == steps # <<>> /\ Last(steps) \in {"KeyboardInterrupt", "Exception"}

\* The operator declined a retry at the input-directory prompt.
DeclinedRetry ==
    /\ steps = <<"get_input_folder">>
    /\ entered # <<>>
    /\ Last(entered)[2] = "n"

\* The operator answered no to the preview confirmation.
DeclinedPreview == confirmed = "n"

\* Nothing was written, created or converted since the program started.
NothingWritten ==
    /\ files = files0
    /\ dirs = dirs0
    /\ attempts = <<>>
    /\ opened_w = {}

----------------------------------------------------------------------------
(* C11 *)

\* C11 as stated: when the process has ended, its status is 0 if main ran to
\* its end (the batch returned, whatever its error count), and it is not 0 if
\* the operator declined a retry at the input-directory prompt, declined the
\* preview confirmation or pressed Ctrl+C, or a top-level fault was caught.
C11_ExitStatus ==
    pc = "exit" =>
        /\ (Called("fix_playlists_batch") /\ ~Interrupted) => exit_code = 0
        /\ (DeclinedRetry \/ DeclinedPreview \/ Interrupted) => exit_code # 0

----------------------------------------------------------------------------
(* C13 *)

\* Every line of b is a directive or holds white space only.
OnlyDirectivesAndBlanks(b) ==
    \A l \in Range(ByteLines(b)) : IsDirective(l) \/ strip(Content(l)) = <<>>

\* C13: once detection has run, if it found no sample path (as it must when
\* every playlist holds directives and blank lines only) or the operator
\* entered no manual prefix, the run has ended, the batch was never started
\* and nothing was written or created; and whenever the batch has been
\* started the source prefix is not empty.
C13_DetectionFailureStopsRun ==
    /\ (Called("auto_detect_windows_prefix")
            /\ (sample_path = <<>> \/ detection \in {"NoSamplePath", "ReadError", "NoFiles"}
                   \/ windows_prefix = <<>>)) =>
           /\ pc = "exit"
           /\ ~Called("fix_playlists_batch")
           /\ NothingWritten
    /\ (Called("auto_detect_windows_prefix")
            /\ \A f \in PlaylistEntries(in_dir) :
                   OnlyDirectivesAndBlanks(files[Join(in_dir, f)])) =>
           sample_path = <<>>
    /\ Called("fix_playlists_batch") => windows_prefix # <<>>

\* The operator declined the suggestion and entered nothing, in a directory
\* that holds the output of an earlier run.
C13_Witness ==
    /\ pc = "exit"
    /\ detection = "Manual"
    /\ suggested_prefix # <<>>
    /\ windows_prefix = <<>>
    /\ OutputFolder(input_folder) \in dirs

----------------------------------------------------------------------------
(* C14 *)

\* The order of the steps of main.
StepOrder ==
    << "get_input_folder", "auto_detect_windows_prefix", "get_linux_prefix",
       "preview_conversion", "fix_playlists_batch", "get_network_destination",
       "copy_to_network_share" >>

\* The steps taken, without the handler that may have ended them.
StepsTaken == IF Interrupted THEN SubSeq(steps, 1, Len(steps) - 1) ELSE steps

\* C14: the steps main has taken are the first ones of the order input
\* directory, detection, target prefix, preview, batch, network destination,
\* copy; and as long as the operator has not answered yes to the preview
\* confirmation of this run, no file is written, no directory created and no
\* conversion attempted.
C14_StepsInOrder ==
    /\ Len(StepsTaken) <= Len(StepOrder)
    /\ StepsTaken = SubSeq(StepOrder, 1, Len(StepsTaken))
    /\ confirmed # "y" => NothingWritten /\ ~Called("fix_playlists_batch")
    /\ Called("fix_playlists_batch") => confirmed = "y"

\* The operator answered no to the preview, in a directory that holds the
\* output of an earlier run.
C14_Witness ==
    /\ pc = "exit"
    /\ confirmed = "n"
    /\ samples # <<>>
    /\ Join(OutputFolder(input_folder), P_M3U) \in DOMAIN files


----------------------------------------------------------------------------
(* C15 *)

\* The path is a directory that holds an entry named like a playlist.
IsPlaylistDirectory(path) == path \in dirs /\ PlaylistEntries(path) # {}

\* C15: while get_input_folder prompts, every entry so far was invalid and
\* answered with a retry; after an invalid entry and the answer y it prompts
\* again; once the operator declines a retry it has returned no path and the
\* run has ended; and a path it returned is the last entry, it exists, is a
\* directory and holds at least one playlist file.
C15_InputFolderPrompt ==
    /\ steps = <<"get_input_folder">> =>
          /\ \A i \in 1..(Len(entered) - 1) :
                ~IsPlaylistDirectory(entered[i][1]) /\ entered[i][2] = "y"
          /\ Last(entered)[2] = "y" =>
                ~IsPlaylistDirectory(Last(entered)[1]) /\ pc = "step1" /\ in_dir = <<>>
          /\ Last(entered)[2] = "n" =>
                ~IsPlaylistDirectory(Last(entered)[1]) /\ pc = "exit" /\ in_dir = <<>>
          /\ Last(entered)[2] = "" =>
                pc = "step2" /\ in_dir = Last(entered)[1]
    /\ pc = "step1" => in_dir = <<>>
    /\ in_dir # <<>> => Exists(in_dir) /\ IsPlaylistDirectory(in_dir)

\* get_input_folder has returned the playlist directory after two invalid
\* entries of different kinds.
C15_Witness ==
    /\ pc = "step2"
    /\ Len(entered) = 3
    /\ entered[1][1] # entered[2][1]
    /\ in_dir = input_folder

----------------------------------------------------------------------------
(* C16 *)

\* The files of the network share.
NasFiles == {q \in DOMAIN files : Len(q) > 1 /\ Dirname(q) = NAS}

\* C16: when copy_to_network_share has been called, or a file stands in the
\* network share, the batch has processed every discovered file, at least
\* one was converted, and the destination is a directory that
\* get_network_destination returned; a file stands in the share only if the
\* operator confirmed the copy, it holds what the output directory holds, and
\* no conversion follows (the run has ended).
C16_CopyAfterBatch ==
    /\ (Called("copy_to_network_share") \/ NasFiles # {} \/ copy_confirmed \/ copied # {}) =>
          /\ Called("fix_playlists_batch")
          /\ idx = Len(m3u_files)
          /\ attempts = m3u_files
          /\ success_count > 0
          /\ Called("get_network_destination")
          /\ net_dest = NAS
          /\ net_dest \in dirs
    /\ NasFiles # {} =>
          /\ copy_confirmed
          /\ pc = "exit"
          /\ NasFiles = {Join(NAS, f) : f \in copied}
          /\ \A f \in copied : files[Join(NAS, f)] = files[OutPath(f)]
    /\ pc \in {"step5", "batch_loop"} => ~Called("get_network_destination") /\ NasFiles = {}

\* Files were copied to the share after a batch in which a conversion failed.
C16_Witness ==
    /\ pc = "exit"
    /\ NasFiles # {}
    /\ error_count > 0
    /\ copy_confirmed

----------------------------------------------------------------------------
(* C18 *)

\* b is UTF-8, the last character possibly cut short.
Utf8Prefix(b) ==
    \E k \in 0..2 :
        /\ k <= Len(b)
        /\ Utf8Valid(SubSeq(b, 1, Len(b) - k))
        /\ \/ k = 0
           \/ \E e \in Utf8Table :
                 Len(e[1]) > k /\ SubSeq(e[1], 1, k) = SubSeq(b, Len(b) - k + 1, Len(b))

\* No I/O operation fails on a playlist of the input directory.
NoFaults == \A f \in DOMAIN io_fault : io_fault[f] = "none"

\* No raw byte above 0x7F stands in the text.
Decoded(t) == Range(t) \cap HighBytes = {}

\* C18: with a playlist that is not UTF-8 in the input directory and no
\* failing I/O operation, detection does not end on a read error and finds
\* its sample path as decoded text, the preview asks its question, and every
\* playlist is converted; whatever the faults, a file is reported failed only
\* if an I/O operation fails on it, every output file of a converted
\* playlist is valid UTF-8, and every output file written is UTF-8 up to
\* where the write stopped.
C18_EncodingFallback ==
    /\ NoFaults =>
          /\ detection \notin {"ReadError", "NoFiles"}
          /\ confirmed # "error"
          /\ \A f \in DOMAIN results : results[f].success
    /\ Decoded(sample_path)
    /\ \A i \in 1..Len(samples) : Decoded(samples[i][1]) /\ Decoded(samples[i][2])
    /\ \A f \in DOMAIN results :
          /\ ~results[f].success => io_fault[f] # "none"
          /\ results[f].success => Utf8Valid(files[OutPath(f)])
    /\ \A q \in opened_w : q \in DOMAIN files => Utf8Prefix(files[q])

\* The playlist that is not UTF-8 has been converted, after detection took
\* its sample path from it.
C18_Witness ==
    /\ pc = "exit"
    /\ ~Utf8Valid(files[Join(input_folder, P_M3U)])
    /\ "U+00E9" \in Range(sample_path)
    /\ P_M3U \in DOMAIN results
    /\ results[P_M3U].success
    /\ "xC3" \in Range(files[OutPath(P_M3U)])

----------------------------------------------------------------------------
(* C19 *)

\* get_linux_prefix has returned to main, which has not gone further than
\* its check of the prefix.
LinuxPrefixReturned == Last(steps) = "get_linux_prefix" /\ pc # "step3"

\* C19 as stated: when get_linux_prefix has returned an empty prefix the run
\* proceeds to the preview.
C19_EmptyTargetProceeds ==
    (steps # <<>> /\ LinuxPrefixReturned /\ linux_prefix = <<>>) => pc = "step4"

\* C19 as amended: when get_linux_prefix has returned an empty prefix the run
\* has ended with status 0, without preview and without anything written;
\* whenever the preview or the batch has been started the target prefix is
\* not empty, ends with "/" and holds no backslash.
C19_EmptyTargetEndsRun ==
    /\ (steps # <<>> /\ LinuxPrefixReturned /\ linux_prefix = <<>>) =>
          /\ pc = "exit"
          /\ exit_code = 0
          /\ ~Called("preview_conversion")
          /\ NothingWritten
    /\ (Called("preview_conversion") \/ Called("fix_playlists_batch")) =>
          /\ linux_prefix # <<>>
          /\ Last(linux_prefix) = "/"
          /\ NoBackslash(linux_prefix)

\* The operator chose the custom prefix and entered nothing.
C19_Witness ==
    /\ steps # <<>>
    /\ LinuxPrefixReturned
    /\ linux_prefix = <<>>
    /\ windows_prefix # <<>>
    /\ pc = "exit"


----------------------------------------------------------------------------
(* C21 *)

\* The prefix holds no backslash and ends with "/".
NormalForm(prefix) == NoBackslash(prefix) /\ Last(prefix) = "/"

\* s with every backslash turned into "/", and a "/" at the end if s is not
\* empty and has none.
SlashNormalized(s) ==
    LET t == [k \in 1..Len(s) |-> IF s[k] = BS THEN "/" ELSE s[k]]
    IN  IF t = <<>> \/ t[Len(t)] = "/" THEN t ELSE t \o <<"/">>

\* C21 as stated: a non-empty source prefix that detection has returned (an
\* accepted suggestion or a manual entry) and a non-empty target prefix that
\* the target-prefix prompt has returned hold no backslash and end with "/";
\* a manual entry comes back slash-normalized, with a "/" appended only if it
\* is not empty and lacks one.
C21_PrefixNormalForm ==
    /\ (Called("auto_detect_windows_prefix") /\ windows_prefix # <<>>) =>
          NormalForm(windows_prefix)
    /\ (Called("get_linux_prefix") /\ linux_prefix # <<>>) => NormalForm(linux_prefix)
    /\ detection = "Manual" =>
          windows_prefix \in {SlashNormalized(strip(m)) : m \in ManualEntries}
    /\ Called("get_linux_prefix") =>
          linux_prefix \in {<<>>, <<".", ".", "/">>, MUSIC}
                               \cup {SlashNormalized(strip(c)) : c \in CustomEntries}


----------------------------------------------------------------------------
(* C22 *)

\* C22 as stated: after a successful conversion the output has a line for
\* every line of the input; the line of a blank input line is exactly "\n";
\* the line of a path entry ends with exactly one "\n" and holds no carriage
\* return, whether the input line ended with LF, CRLF, CR or the file.
C22_CanonicalTerminator ==
    Converted =>
        /\ Len(OutLines) = Len(InLines)
        /\ \A k \in 1..Len(InLines) :
              /\ (~IsDirective(InLines[k]) /\ IsBlank(InLines[k])) =>
                    OutLines[k] = <<LF>>
              /\ IsPathEntry(InLines[k]) =>
                    /\ Terminator(OutLines[k]) = <<LF>>
                    /\ CR \notin Range(OutLines[k])


----------------------------------------------------------------------------
(* C23 *)

\* The first n lines the loop of convert_single_playlist counts as track
\* entries, each with the line it writes for it, both without terminator.
RECURSIVE EngineEntries(_, _, _, _)
EngineEntries(lines, wp, lp, n) ==
    IF lines = <<>> \/ n = 0 THEN <<>>
    ELSE LET r == ProcessLine(Head(lines), wp, lp)
         IN  IF r.track = 1
             THEN << <<rstrip_crlf(Head(lines)), rstrip_crlf(r.out)>> >>
                  \o EngineEntries(Tail(lines), wp, lp, n - 1)
             ELSE EngineEntries(Tail(lines), wp, lp, n)

\* The text lines of the playlist f of the input directory.
PlaylistLines(f) == readlines(files[Join(in_dir, f)])

\* C23 as stated: once the preview has asked its question, its samples are,
\* for the playlist it read, the first three lines (or all, if fewer) that the
\* engine counts as track entries, each with the line the engine writes for
\* it; and once detection has looked for a sample path, that path is the
\* first line the engine counts as a track entry in the playlist it read, and
\* there is none only if the engine counts none.
C23_PreviewAgreesWithEngine ==
    /\ confirmed \in {"y", "n"} /\ Called("preview_conversion") =>
          \E f \in PlaylistEntries(in_dir) :
              samples = EngineEntries(PlaylistLines(f), windows_prefix, linux_prefix, 3)
    /\ detection \in {"Confirmed", "Manual", "NoSamplePath"} =>
          \E f \in PlaylistEntries(in_dir) :
              LET first == EngineEntries(PlaylistLines(f), <<>>, <<>>, 1)
              IN  IF first = <<>> THEN sample_path = <<>>
                                  ELSE sample_path = first[1][1]


----------------------------------------------------------------------------
(* SpecTwice: convert_single_playlist called on a file, then on the file   *)
(* it produced, with the same prefixes.                                    *)

\* The output of the second call.
OUT2_P == Join(Join(OutputFolder(input_folder), CONVERTED_FOR_LINUX), P_M3U)

InitTwice ==
    /\ \E c \in Contents : files = (IN_P :> c)
    /\ dirs = {input_folder, OutputFolder(input_folder), Dirname(OUT2_P)}
    /\ os_linesep \in Platforms
    /\ io_fault = (P_M3U :> "none")
    /\ mkdir_ok = TRUE
    /\ windows_prefix \in SourcePrefixes
    /\ linux_prefix \in TargetPrefixes
    /\ pc = "call"
    /\ in_dir = input_folder
    /\ confirmed = "y"
    /\ sample_path = <<>>
    /\ InitLocals

\* convert_single_playlist(OUT_P, OUT2_P, windows_prefix, linux_prefix)
call_again ==
    /\ pc = "returned"
    /\ ret.success
    /\ \E o \in convert_single_playlist(OUT_P, OUT2_P, windows_prefix, linux_prefix) :
          /\ ret' = [success |-> o.success, track_count |-> o.track_count,
                     error_msg |-> o.error_msg]
          /\ files' = o.files
          /\ opened_w' = opened_w \cup o.opened
    /\ before_call' = files
    /\ pc' = "returned again"
    /\ UNCHANGED <<dirs, env, windows_prefix, linux_prefix, run, output_folder,
                   m3u_files, idx, success_count, error_count, errors, results,
                   attempts, files0, prev, exit_code, ui>>

NextTwice == call_convert \/ call_again

SpecTwice == InitTwice /\ [][NextTwice]_vars

\* Both calls have succeeded.
ConvertedTwice == pc = "returned again" /\ ret.success

Out2Bytes == files[OUT2_P]

----------------------------------------------------------------------------
(* C24 *)

\* C24 as stated: when the target prefix does not contain the source prefix
\* in any letter case, converting the output of a conversion again with the
\* same prefixes gives the same bytes.
C24_IdempotentUnlessTargetHoldsSource ==
    (ConvertedTwice /\ ~Occurs(windows_prefix, linux_prefix)) => Out2Bytes = OutBytes

\* C24 as amended: when no line of the first output that is neither a
\* directive nor blank contains a backslash or, in any letter case, the
\* source prefix, converting that output again with the same prefixes gives
\* the same bytes.
C24_IdempotentOnSettledOutput ==
    (ConvertedTwice
        /\ \A k \in 1..Len(OutLines) :
              IsPathEntry(OutLines[k]) =>
                  /\ NoBackslash(Content(OutLines[k]))
                  /\ ~Occurs(windows_prefix, DecodeUtf8(Content(OutLines[k])))) =>
        Out2Bytes = OutBytes

\* A file of CRLF lines with a backslash has been converted twice, the first
\* conversion replacing the source prefix.
C24_Witness ==
    /\ ConvertedTwice
    /\ NoBackslash(linux_prefix)
    /\ linux_prefix # <<>>
    /\ windows_prefix # <<>>
    /\ CR \in Range(InBytes)
    /\ BS \in Range(InBytes)
    /\ OutBytes # InBytes
    /\ Out2Bytes = OutBytes
    /\ \E k \in 1..Len(InLines) :
          IsPathEntry(InLines[k])
              /\ Occurs(windows_prefix, replace_backslash(Content(InLines[k])))


----------------------------------------------------------------------------
(* C25 *)

\* The files the batch of this run reported as converted.
ConvertedThisRun == {f \in DOMAIN results : results[f].success}

\* C25: when the operator confirmed the copy, every file that
\* copy_to_network_share copied or failed to copy is a file this run's batch
\* reported as converted; each of them was either copied or recorded as
\* failed, never both, and the copied ones stand in the destination.
C25_CopiesOnlyThisRunsResults ==
    copy_confirmed =>
        /\ copied \cup copy_errors = ConvertedThisRun
        /\ copied \cap copy_errors = {}
        /\ \A f \in copied : Join(net_dest, f) \in DOMAIN files


=============================================================================
